---- MODULE Spec2Model ----
(***************************************************************************)
(* scripts/django_setup_example.py: the DebtCollectionSetup client, its    *)
(* three network verbs, and the driver main() with the __main__ exit.      *)
(*                                                                         *)
(* Two specifications:                                                     *)
(*   Spec        one run of the script (main() and sys.exit)               *)
(*   SpecClient  a DebtCollectionSetup object constructed with any         *)
(*               arguments, whose verbs are called in any order            *)
(***************************************************************************)
EXTENDS Integers, Sequences, FiniteSets, TLC

VARIABLES
    env_key,      \* os.environ['PROVISIONING_API_KEY'], None when unset
    json_error_is_request_exception,
                  \* the installed requests: whether Response.json() raises a
                  \* RequestException subclass (requests >= 2.27) or a bare ValueError
    pc,           \* position in main() / __main__, or the client's life cycle
    setup,        \* the DebtCollectionSetup object, NoObject before construction
    constructed_with,
                  \* history: the arguments __init__ was called with
    trace,        \* history: one record per step invoked, in order
    sent,         \* every HTTP request handed to requests.get / requests.post
    stdout,       \* the printed lines
    files,        \* the working directory: file name -> content
    success,      \* __main__'s variable: "unset", "True", "False"
    exception,    \* the exception propagating out of main(), "" when none
    exit_status   \* the process exit status, NotExited while running

vars == <<env_key, json_error_is_request_exception, pc, setup, constructed_with,
          trace, sent, stdout, files, success, exception, exit_status>>

----------------------------------------------------------------------------
(* Bounds of the model *)

\* SpecClient: how many verb calls are made on one client object
MaxCalls == 2

----------------------------------------------------------------------------
(* Python values *)

None == "<None>"
NoObject == [api_base_url |-> "", api_key |-> None, headers |-> <<>>]
NoArgs == [api_base_url |-> "", api_key |-> None]
NotExited == -1
Absent == "<absent>"

\* mutant: only None counts as missing, as in  if api_key is None
Truthy_none_only(v) == v # None

\* truth value of an Optional[str]: None and "" are falsy
Truthy(v) == v # None /\ v # ""

\* x or y
Or(x, y) == IF Truthy(x) THEN x ELSE y

\* str(v) as an f-string formats it
Str(v) == IF v = None THEN "None" ELSE v

HTTP_OK == 200
HEALTH_TIMEOUT == 10
POST_TIMEOUT == 30
DEFAULT_API_BASE_URL == "http://localhost:8080/api"

----------------------------------------------------------------------------
(* datetime.now().isoformat() *)

\* clock readings: microseconds since 2024-01-01T00:00:00, within that minute
ClockReadings == {0, 1000, 1001, 1000000}

RECURSIVE ZeroPad(_, _)
ZeroPad(s, width) == IF Len(s) >= width THEN s ELSE ZeroPad("0" \o s, width)

\* mutant: isoformat(timespec='seconds'), the fraction always left out
isoformat_seconds(t) ==
    "2024-01-01T00:00:" \o ZeroPad(ToString((t \div 1000000) % 60), 2)

\* datetime.isoformat(): the fraction is left out when microsecond = 0
isoformat(t) ==
    LET second      == (t \div 1000000) % 60
        microsecond == t % 1000000
    IN  "2024-01-01T00:00:" \o ZeroPad(ToString(second), 2)
        \o (IF microsecond = 0 THEN "" ELSE "." \o ZeroPad(ToString(microsecond), 6))

----------------------------------------------------------------------------
(* What the network gives back to one requests.get / requests.post *)

\* requests.RequestException subclasses raised by the transport
TransportErrors == {"Timeout", "ConnectionError"}

Statuses == {200, 201, 404, 503}

\* a response body: not JSON at all, JSON that is no object, or a JSON object
JsonObject(ks, sc, ec, er, id) ==
    [kind |-> "object", keys |-> ks,
     success_count |-> IF "success_count" \in ks THEN sc ELSE 0,
     error_count   |-> IF "error_count" \in ks THEN ec ELSE 0,
     errors        |-> IF "errors" \in ks THEN er ELSE <<>>,
     event_id      |-> IF "event_id" \in ks THEN id ELSE ""]

InvalidJson == [JsonObject({}, 0, 0, <<>>, "") EXCEPT !.kind = "invalid"]
JsonArray   == [JsonObject({}, 0, 0, <<>>, "") EXCEPT !.kind = "nonobject"]

StatusBodies == {InvalidJson, JsonArray, JsonObject({}, 0, 0, <<>>, "")}

BulkBodies ==
    {InvalidJson, JsonArray} \cup
    { JsonObject(ks, sc, 1, er, "") :
        ks \in SUBSET {"success_count", "error_count", "errors"},
        sc \in {0, 2}, er \in {<<>>, <<"duplicate email">>} }

EventBodies ==
    {InvalidJson, JsonArray} \cup
    { JsonObject(ks, 0, 0, <<>>, "test-2024-01-01T00:00:00") : ks \in SUBSET {"event_id"} }

Raised(e) == [exc |-> e, status_code |-> 0, body |-> InvalidJson]
Response(s, b) == [exc |-> "", status_code |-> s, body |-> b]

NetOutcomes(bodies) ==
    { Raised(e) : e \in TransportErrors }
    \cup { Response(s, InvalidJson) : s \in Statuses \ {HTTP_OK} }
    \cup { Response(HTTP_OK, b) : b \in bodies }

----------------------------------------------------------------------------
(* class DebtCollectionSetup *)

\* mutant: the environment wins over the argument
Init_DebtCollectionSetup_env_first(api_base_url, api_key) ==
    LET key == IF env_key # None /\ env_key # "" THEN env_key ELSE api_key
    IN  [api_base_url |-> api_base_url,
         api_key      |-> key,
         headers      |-> ("Authorization" :> ("Bearer " \o (IF key = None THEN "None" ELSE key)))
                          @@ ("Content-Type" :> "application/json")]

\* DebtCollectionSetup.__init__
Init_DebtCollectionSetup(api_base_url, api_key) ==
    LET key == Or(api_key, env_key)
    IN  [api_base_url |-> api_base_url,
         api_key      |-> key,
         headers      |-> ("Authorization" :> ("Bearer " \o Str(key)))
                          @@ ("Content-Type" :> "application/json")]

\* what one verb call did: how it ended, what it printed, what it sent
Return(value, printed, requests) ==
    [outcome |-> "return", value |-> value, exc |-> "",
     printed |-> printed, requests |-> requests]
Raise(exc, printed, requests) ==
    [outcome |-> "raise", value |-> FALSE, exc |-> exc,
     printed |-> printed, requests |-> requests]

NoJson == <<>>

Request(method, url, payload, headers, timeout) ==
    [method |-> method, url |-> url, json |-> payload,
     headers |-> headers, timeout |-> timeout]

\* response.json() failed inside a try ... except requests.RequestException:
\* caught there when the library's JSONDecodeError is a RequestException,
\* propagating otherwise
JsonDecodeFailure(label, printed, requests) ==
    IF json_error_is_request_exception
    THEN Return(FALSE, printed \o <<label \o " error: JSONDecodeError">>, requests)
    ELSE Raise("JSONDecodeError", printed, requests)

\* mutant: any 2xx status counts as success, as in  if response.ok
test_connection_accepts_2xx(self, net) ==
    LET req == Request("GET", self.api_base_url \o "/webhooks/status", NoJson,
                       self.headers, HEALTH_TIMEOUT)
    IN  IF net.exc # ""
        THEN Return(FALSE, <<"Connection error: " \o net.exc>>, <<req>>)
        ELSE IF net.status_code >= 200 /\ net.status_code < 300
        THEN IF net.body.kind = "invalid"
             THEN JsonDecodeFailure("Connection",
                      <<"Successfully connected to debt collection API">>, <<req>>)
             ELSE Return(TRUE, <<"Successfully connected to debt collection API",
                                 "Webhook system status: " \o net.body.kind>>, <<req>>)
        ELSE Return(FALSE, <<"Connection failed with status: "
                             \o ToString(net.status_code)>>, <<req>>)

\* DebtCollectionSetup.test_connection
test_connection(self, net) ==
    LET req == Request("GET", self.api_base_url \o "/webhooks/status", NoJson,
                       self.headers, HEALTH_TIMEOUT)
    IN  IF net.exc # ""
        THEN Return(FALSE, <<"Connection error: " \o net.exc>>, <<req>>)
        ELSE IF net.status_code = HTTP_OK
        THEN IF net.body.kind = "invalid"
             THEN JsonDecodeFailure("Connection",
                      <<"Successfully connected to debt collection API">>, <<req>>)
             ELSE Return(TRUE, <<"Successfully connected to debt collection API",
                                 "Webhook system status: " \o net.body.kind>>, <<req>>)
        ELSE Return(FALSE, <<"Connection failed with status: "
                             \o ToString(net.status_code)>>, <<req>>)

sample_users ==
    << [keycloak_id |-> "test-user-1-uuid", email |-> "admin@medical-group-1.com",
        first_name |-> "Dr. John", last_name |-> "Doe",
        engagemx_client_id |-> "medical_group_1", is_active |-> TRUE],
       [keycloak_id |-> "test-user-2-uuid", email |-> "manager@hospital-2.com",
        first_name |-> "Jane", last_name |-> "Smith",
        engagemx_client_id |-> "hospital_2", is_active |-> TRUE] >>

\* mutant: a transport error is retried once before giving up
provision_sample_users_retrying(self, net) ==
    LET req == Request("POST", self.api_base_url \o "/provisioning/users/bulk",
                       sample_users, self.headers, POST_TIMEOUT)
        result == net.body
        counted == <<"Successfully provisioned " \o ToString(result.success_count)
                     \o " sample users">>
    IN  IF net.exc # ""
        THEN Return(FALSE, <<"Provisioning error: " \o net.exc>>, <<req, req>>)
        ELSE IF net.status_code = HTTP_OK
        THEN CASE result.kind = "invalid" ->
                    JsonDecodeFailure("Provisioning", <<>>, <<req>>)
               [] result.kind = "nonobject" ->
                    Raise("TypeError", <<>>, <<req>>)
               [] result.kind = "object" /\ "success_count" \notin result.keys ->
                    Raise("KeyError", <<>>, <<req>>)
               [] OTHER ->
                    IF result.errors # <<>>
                    THEN IF "error_count" \in result.keys
                         THEN Return(TRUE, counted \o
                                  <<"Warning: " \o ToString(result.error_count)
                                    \o " errors occurred">>, <<req>>)
                         ELSE Raise("KeyError", counted, <<req>>)
                    ELSE Return(TRUE, counted, <<req>>)
        ELSE Return(FALSE, <<"Provisioning failed with status: "
                             \o ToString(net.status_code), "response.text">>, <<req>>)

\* DebtCollectionSetup.provision_sample_users
provision_sample_users(self, net) ==
    LET req == Request("POST", self.api_base_url \o "/provisioning/users/bulk",
                       sample_users, self.headers, POST_TIMEOUT)
        result == net.body
        counted == <<"Successfully provisioned " \o ToString(result.success_count)
                     \o " sample users">>
    IN  IF net.exc # ""
        THEN Return(FALSE, <<"Provisioning error: " \o net.exc>>, <<req>>)
        ELSE IF net.status_code = HTTP_OK
        THEN CASE result.kind = "invalid" ->
                    JsonDecodeFailure("Provisioning", <<>>, <<req>>)
               [] result.kind = "nonobject" ->
                    Raise("TypeError", <<>>, <<req>>)
               [] result.kind = "object" /\ "success_count" \notin result.keys ->
                    Raise("KeyError", <<>>, <<req>>)
               [] OTHER ->
                    IF result.errors # <<>>
                    THEN IF "error_count" \in result.keys
                         THEN Return(TRUE, counted \o
                                  <<"Warning: " \o ToString(result.error_count)
                                    \o " errors occurred">>, <<req>>)
                         ELSE Raise("KeyError", counted, <<req>>)
                    ELSE Return(TRUE, counted, <<req>>)
        ELSE Return(FALSE, <<"Provisioning failed with status: "
                             \o ToString(net.status_code), "response.text">>, <<req>>)

\* the event send_webhook_test builds from two readings of datetime.now()
test_event(now1, now2) ==
    [event_type |-> "user.created",
     event_id   |-> "test-" \o isoformat(now1),
     timestamp  |-> isoformat(now2),
     source     |-> "django-admin-test",
     data       |-> [keycloak_id |-> "webhook-test-user-uuid",
                     email |-> "webhook-test@example.com",
                     first_name |-> "Webhook", last_name |-> "Test",
                     engagemx_client_id |-> "test_client", is_active |-> TRUE],
     version    |-> "1.0.0"]

\* DebtCollectionSetup.send_webhook_test
send_webhook_test(self, now1, now2, net) ==
    LET req == Request("POST", self.api_base_url \o "/webhooks/events",
                       test_event(now1, now2), self.headers, POST_TIMEOUT)
        result == net.body
    IN  IF net.exc # ""
        THEN Return(FALSE, <<"Webhook test error: " \o net.exc>>, <<req>>)
        ELSE IF net.status_code = HTTP_OK
        THEN CASE result.kind = "invalid" ->
                    JsonDecodeFailure("Webhook test", <<>>, <<req>>)
               [] result.kind = "nonobject" ->
                    Raise("TypeError", <<"Webhook test successful">>, <<req>>)
               [] result.kind = "object" /\ "event_id" \notin result.keys ->
                    Raise("KeyError", <<"Webhook test successful">>, <<req>>)
               [] OTHER ->
                    Return(TRUE, <<"Webhook test successful",
                                   "Event ID: " \o result.event_id>>, <<req>>)
        ELSE Return(FALSE, <<"Webhook test failed with status: "
                             \o ToString(net.status_code)>>, <<req>>)

\* DebtCollectionSetup.generate_django_models / generate_django_admin:
\* fixed text, abbreviated to its first line
generate_django_models == "# Add this to your Django models.py"
generate_django_admin  == "# Add this to your Django admin.py"

----------------------------------------------------------------------------
(* The working directory *)

MODELS_FILE == "django_models_example.py"
ADMIN_FILE  == "django_admin_example.py"
FileNames   == {MODELS_FILE, ADMIN_FILE}

\* how  with open(name, 'w') as f: f.write(text)  can end
WriteOutcomes == {"ok", "open_fails", "write_fails"}

\* mutant: a failed write is swallowed, as under  try: ... except OSError: pass
write_file_swallowing(fs, name, text, how) ==
    CASE how = "ok"          -> [fs |-> [fs EXCEPT ![name] = text], exc |-> ""]
      [] how = "open_fails"  -> [fs |-> fs, exc |-> ""]
      [] how = "write_fails" -> [fs |-> [fs EXCEPT ![name] = ""], exc |-> ""]

\* open(name, 'w') creates or truncates the file before anything is written
write_file(fs, name, text, how) ==
    CASE how = "ok"          -> [fs |-> [fs EXCEPT ![name] = text], exc |-> ""]
      [] how = "open_fails"  -> [fs |-> fs, exc |-> "OSError"]
      [] how = "write_fails" -> [fs |-> [fs EXCEPT ![name] = ""], exc |-> "OSError"]

----------------------------------------------------------------------------
(* History *)

NoNet == Response(0, InvalidJson)

\* now: the readings of datetime.now() the step took, <<>> when it took none
Entry(step, now, net, r) ==
    [step |-> step, now |-> now, net |-> net, outcome |-> r.outcome,
     value |-> r.value, exc |-> r.exc, printed |-> r.printed,
     requests |-> r.requests]

----------------------------------------------------------------------------
(* main(), one action per call site, and the __main__ block *)

EnvKeys == {None, "", "secret-from-env"}

Init ==
    /\ env_key \in EnvKeys
    /\ json_error_is_request_exception \in BOOLEAN
    /\ pc = "main"
    /\ setup = NoObject
    /\ constructed_with = NoArgs
    /\ trace = <<>>
    /\ sent = <<>>
    /\ stdout = <<>>
    /\ files = [n \in FileNames |-> Absent]
    /\ success = "unset"
    /\ exception = ""
    /\ exit_status = NotExited

\* mutant: a step that returned False is reported but the run goes on
AfterVerb_keeps_going(step, banner, now, net, r, on_false, next_pc) ==
    /\ trace' = Append(trace, Entry(step, now, net, r))
    /\ sent' = sent \o r.requests
    /\ IF r.outcome = "raise"
       THEN /\ stdout' = stdout \o <<banner>> \o r.printed
            /\ exception' = r.exc
            /\ pc' = "exit"
            /\ UNCHANGED success
       ELSE IF ~r.value
       THEN /\ stdout' = stdout \o <<banner>> \o r.printed \o <<on_false>>
            /\ pc' = next_pc
            /\ UNCHANGED <<success, exception>>
       ELSE /\ stdout' = stdout \o <<banner>> \o r.printed
            /\ pc' = next_pc
            /\ UNCHANGED <<success, exception>>
    /\ UNCHANGED <<env_key, json_error_is_request_exception, setup, constructed_with,
                   files, exit_status>>

\* how main() goes on after the verb call of one step
AfterVerb(step, banner, now, net, r, on_false, next_pc) ==
    /\ trace' = Append(trace, Entry(step, now, net, r))
    /\ sent' = sent \o r.requests
    /\ IF r.outcome = "raise"
       THEN /\ stdout' = stdout \o <<banner>> \o r.printed
            /\ exception' = r.exc
            /\ pc' = "exit"
            /\ UNCHANGED success
       ELSE IF ~r.value
       THEN /\ stdout' = stdout \o <<banner>> \o r.printed \o <<on_false>>
            /\ success' = "False"
            /\ pc' = "exit"
            /\ UNCHANGED exception
       ELSE /\ stdout' = stdout \o <<banner>> \o r.printed
            /\ pc' = next_pc
            /\ UNCHANGED <<success, exception>>
    /\ UNCHANGED <<env_key, json_error_is_request_exception, setup, constructed_with,
                   files, exit_status>>

\* main(): the API key check and the construction of the client
main_check_api_key ==
    /\ pc = "main"
    /\ LET api_key == env_key
       IN  IF ~Truthy(api_key)
           THEN /\ stdout' = stdout \o
                        <<"Django Admin - Debt Collection Integration Setup",
                          "PROVISIONING_API_KEY environment variable not set">>
                /\ success' = "False"
                /\ pc' = "exit"
                /\ UNCHANGED <<setup, constructed_with>>
           ELSE /\ stdout' = stdout \o
                        <<"Django Admin - Debt Collection Integration Setup">>
                /\ setup' = Init_DebtCollectionSetup(DEFAULT_API_BASE_URL, api_key)
                /\ constructed_with' = [api_base_url |-> DEFAULT_API_BASE_URL,
                                        api_key |-> api_key]
                /\ pc' = "test_connection"
                /\ UNCHANGED success
    /\ UNCHANGED <<env_key, json_error_is_request_exception, trace, sent, files,
                   exception, exit_status>>

\* main(): step 1
main_test_connection ==
    /\ pc = "test_connection"
    /\ \E net \in NetOutcomes(StatusBodies) :
         AfterVerb("test_connection", "1. Testing API connection...", <<>>, net,
                   test_connection(setup, net),
                   "Please ensure the debt collection API is running and accessible",
                   "provision_sample_users")

\* main(): step 2
main_provision_sample_users ==
    /\ pc = "provision_sample_users"
    /\ \E net \in NetOutcomes(BulkBodies) :
         AfterVerb("provision_sample_users", "2. Provisioning sample users...", <<>>, net,
                   provision_sample_users(setup, net),
                   "Sample user provisioning failed",
                   "send_webhook_test")

\* the two readings of datetime.now() within one send_webhook_test call
NowPairs == { <<t, t + d>> : t \in ClockReadings, d \in {0, 1} }

\* main(): step 3
main_send_webhook_test ==
    /\ pc = "send_webhook_test"
    /\ \E now \in NowPairs, net \in NetOutcomes(EventBodies) :
         AfterVerb("send_webhook_test", "3. Testing webhook functionality...", now, net,
                   send_webhook_test(setup, now[1], now[2], net),
                   "Webhook test failed",
                   "generate")

\* main(): step 4, the two files, and the closing lines
main_generate ==
    /\ pc = "generate"
    /\ \E how1, how2 \in WriteOutcomes :
         LET w1 == write_file(files, MODELS_FILE, generate_django_models, how1)
             w2 == write_file(w1.fs, ADMIN_FILE, generate_django_admin, how2)
             banner == <<"4. Generating Django integration code...">>
         IN  IF w1.exc # ""
             THEN /\ files' = w1.fs
                  /\ exception' = w1.exc
                  /\ stdout' = stdout \o banner
                  /\ trace' = Append(trace, Entry("generate", <<>>, NoNet,
                                                  Raise(w1.exc, <<>>, <<>>)))
                  /\ UNCHANGED success
             ELSE IF w2.exc # ""
             THEN /\ files' = w2.fs
                  /\ exception' = w2.exc
                  /\ stdout' = stdout \o banner
                  /\ trace' = Append(trace, Entry("generate", <<>>, NoNet,
                                                  Raise(w2.exc, <<>>, <<>>)))
                  /\ UNCHANGED success
             ELSE /\ files' = w2.fs
                  /\ success' = "True"
                  /\ stdout' = stdout \o banner \o <<"Setup complete!">>
                  /\ trace' = Append(trace, Entry("generate", <<>>, NoNet,
                                                  Return(TRUE, <<>>, <<>>)))
                  /\ UNCHANGED exception
    /\ pc' = "exit"
    /\ UNCHANGED <<env_key, json_error_is_request_exception, setup, constructed_with,
                   sent, exit_status>>

\* mutant: sys.exit(1 if success is False else 0), and a traceback not
\* counted as a failure
script_exit_unless_false ==
    /\ pc = "exit"
    /\ exit_status' = (IF success = "False" THEN 1 ELSE 0)
    /\ pc' = "done"
    /\ UNCHANGED <<env_key, json_error_is_request_exception, setup, constructed_with,
                   trace, sent, stdout, files, success, exception>>

\* __main__: sys.exit(0 if success else 1); an exception that left main()
\* ends the interpreter with status 1
script_exit ==
    /\ pc = "exit"
    /\ exit_status' = (IF exception # "" THEN 1
                       ELSE IF success = "True" THEN 0 ELSE 1)
    /\ pc' = "done"
    /\ UNCHANGED <<env_key, json_error_is_request_exception, setup, constructed_with,
                   trace, sent, stdout, files, success, exception>>

Next ==
    \/ main_check_api_key
    \/ main_test_connection
    \/ main_provision_sample_users
    \/ main_send_webhook_test
    \/ main_generate
    \/ script_exit

Spec == Init /\ [][Next]_vars

----------------------------------------------------------------------------
(* A client object used directly: constructed with any arguments, then its  *)
(* verbs called in any order, each call getting any answer of the network.  *)

InitClient ==
    /\ env_key \in {None, "secret-from-env"}
    /\ json_error_is_request_exception \in BOOLEAN
    /\ pc = "new"
    /\ setup = NoObject
    /\ constructed_with = NoArgs
    /\ trace = <<>>
    /\ sent = <<>>
    /\ stdout = <<>>
    /\ files = [n \in FileNames |-> Absent]
    /\ success = "unset"
    /\ exception = ""
    /\ exit_status = NotExited

BaseUrlArgs == {"https://debt.example.org/api"}
ApiKeyArgs  == {None, "", "secret-from-arg"}

\* setup = DebtCollectionSetup(api_base_url, api_key)
client_construct ==
    /\ pc = "new"
    /\ \E url \in BaseUrlArgs, key \in ApiKeyArgs :
         /\ setup' = Init_DebtCollectionSetup(url, key)
         /\ constructed_with' = [api_base_url |-> url, api_key |-> key]
    /\ pc' = "client"
    /\ UNCHANGED <<env_key, json_error_is_request_exception, trace, sent, stdout,
                   files, success, exception, exit_status>>

\* the answers the client's calls get: a transport error, a non-200 status,
\* a 200 with the expected body, a 200 with another body
ClientNet(good, bad) ==
    {Raised("Timeout"), Response(503, InvalidJson),
     Response(HTTP_OK, good), Response(HTTP_OK, bad)}

\* a verb call made directly by a caller that survives its exceptions
AfterCall(step, now, net, r) ==
    /\ trace' = Append(trace, Entry(step, now, net, r))
    /\ sent' = sent \o r.requests
    /\ stdout' = stdout \o r.printed
    /\ UNCHANGED <<env_key, json_error_is_request_exception, pc, setup,
                   constructed_with, files, success, exception, exit_status>>

client_test_connection ==
    /\ pc = "client"
    /\ Len(trace) < MaxCalls
    /\ \E net \in ClientNet(JsonObject({}, 0, 0, <<>>, ""), InvalidJson) :
         AfterCall("test_connection", <<>>, net, test_connection(setup, net))

client_provision_sample_users ==
    /\ pc = "client"
    /\ Len(trace) < MaxCalls
    /\ \E net \in ClientNet(JsonObject({"success_count"}, 2, 0, <<>>, ""),
                            JsonObject({"errors"}, 0, 0, <<"duplicate email">>, "")) :
         AfterCall("provision_sample_users", <<>>, net, provision_sample_users(setup, net))

client_send_webhook_test ==
    /\ pc = "client"
    /\ Len(trace) < MaxCalls
    /\ \E now \in NowPairs,
          net \in ClientNet(JsonObject({"event_id"}, 0, 0, <<>>, "test-2024-01-01T00:00:00"),
                            JsonObject({}, 0, 0, <<>>, "")) :
         AfterCall("send_webhook_test", now, net,
                   send_webhook_test(setup, now[1], now[2], net))

NextClient ==
    \/ client_construct
    \/ client_test_connection
    \/ client_provision_sample_users
    \/ client_send_webhook_test

SpecClient == InitClient /\ [][NextClient]_vars

----------------------------------------------------------------------------
(* Properties of one run of the script (Spec) *)

StepOrder == <<"test_connection", "provision_sample_users", "send_webhook_test",
               "generate">>
Verbs == {"test_connection", "provision_sample_users", "send_webhook_test"}

ReturnedTrue(e)  == e.outcome = "return" /\ e.value
ReturnedFalse(e) == e.outcome = "return" /\ ~e.value
GotStatus200(e)  == e.net.exc = "" /\ e.net.status_code = 200

\* C1: the steps run in the fixed order test_connection, provision_sample_users,
\* send_webhook_test, code generation; a step is invoked only if every earlier
\* step returned True; once a network step has returned False no later step is
\* invoked and the process exits with status 1.
C1_FixedOrderShortCircuit ==
    /\ Len(trace) <= Len(StepOrder)
    /\ \A i \in 1..Len(trace) :
         /\ trace[i].step = StepOrder[i]
         /\ \A j \in 1..(i - 1) : ReturnedTrue(trace[j])
         /\ (trace[i].step \in Verbs /\ ReturnedFalse(trace[i]))
               => /\ i = Len(trace)
                  /\ pc \in {"exit", "done"}
                  /\ success = "False"
                  /\ (pc = "done" => exit_status = 1)

C1_Witness ==
    /\ pc = "done"
    /\ exit_status = 1
    /\ Len(trace) = 2
    /\ ReturnedTrue(trace[1])
    /\ ReturnedFalse(trace[2])
    /\ trace[2].net.status_code = 503

All200 ==
    \A v \in Verbs : \E i \in 1..Len(trace) : trace[i].step = v /\ GotStatus200(trace[i])
GenerationCompleted ==
    \E i \in 1..Len(trace) : trace[i].step = "generate" /\ trace[i].outcome = "return"

\* C3: the process exits with status 0 exactly when the health check, the bulk
\* provisioning and the webhook test each got HTTP 200 and the code generation
\* completed; every other run (missing key included) exits with status 1.
C3_ExitStatus ==
    pc = "done" =>
        /\ exit_status \in {0, 1}
        /\ (exit_status = 0) <=> (All200 /\ GenerationCompleted)
        /\ env_key \in {None, ""} => exit_status = 1

C3_Witness ==
    /\ pc = "done"
    /\ exit_status = 0
    /\ Len(trace) = 4
    /\ trace[2].net.body.errors # <<>>

\* C4: with PROVISIONING_API_KEY unset or empty the driver exits with status 1
\* before the client is constructed and before any request is sent; no request
\* of a run carries an absent or empty bearer token.
C4_NoEmptyToken ==
    /\ env_key \in {None, ""} =>
          /\ setup = NoObject
          /\ sent = <<>>
          /\ trace = <<>>
          /\ pc \in {"main", "exit", "done"}
          /\ (pc = "done" => exit_status = 1)
    /\ \A i \in 1..Len(sent) :
          sent[i].headers["Authorization"] \notin {"Bearer ", "Bearer None"}

C4_Witness ==
    /\ env_key = ""
    /\ pc = "done"
    /\ exit_status = 1
    /\ sent = <<>>

\* C7: a network verb returns True only if the response it received had status
\* 200; for any other status and for any transport error it returns False.
C7_TrueOnlyOn200 ==
    \A i \in 1..Len(trace) :
        trace[i].step \in Verbs =>
            /\ ReturnedTrue(trace[i]) => GotStatus200(trace[i])
            /\ ~GotStatus200(trace[i]) => ReturnedFalse(trace[i])

C7_Witness ==
    /\ Len(trace) = 3
    /\ trace[1].net.status_code = 200 /\ ReturnedTrue(trace[1])
    /\ trace[2].net.status_code = 200 /\ ReturnedTrue(trace[2])
    /\ trace[3].net.status_code = 201 /\ ReturnedFalse(trace[3])

\* C8: no retries: each invocation of a network verb issues exactly one HTTP
\* request whatever the outcome, so a run issues at most three requests, at
\* most one to each of /webhooks/status, /provisioning/users/bulk and
\* /webhooks/events.
C8_NoRetries ==
    /\ \A i \in 1..Len(trace) :
         Len(trace[i].requests) = (IF trace[i].step \in Verbs THEN 1 ELSE 0)
    /\ Len(sent) = Cardinality({i \in 1..Len(trace) : trace[i].step \in Verbs})
    /\ Len(sent) <= 3
    /\ \A i \in 1..Len(sent) :
         sent[i].url = DEFAULT_API_BASE_URL \o
              <<"/webhooks/status", "/provisioning/users/bulk", "/webhooks/events">>[i]

C8_Witness ==
    /\ pc = "done"
    /\ Len(sent) = 3
    /\ trace[3].net.exc = "Timeout"
    /\ Len(trace[3].requests) = 1

\* C2: every network verb turns every failure into a False return and lets no
\* exception out, an HTTP 200 whose body is malformed or lacks an expected
\* field included.  Stated for the builds most favourable to it, those where
\* the library's JSON decoding error is a RequestException the verbs catch.
C2_NoExceptionEscapes ==
    json_error_is_request_exception =>
        \A i \in 1..Len(trace) :
            trace[i].step \in Verbs =>
                /\ trace[i].outcome = "return"
                /\ exception = ""

\* the body of a 200 answer carries the fields the bulk endpoint documents:
\* success_count, and optionally error_count and errors
DocumentedBulkResult(e) ==
    /\ GotStatus200(e)
    /\ e.net.body.kind = "object"
    /\ "success_count" \in e.net.body.keys

Warned(e) ==
    \E k \in 1..Len(e.printed) : e.printed[k] = "Warning: 1 errors occurred"

\* C5: on HTTP 200 provision_sample_users returns True whatever success_count,
\* error_count and errors are; the warning line is printed exactly when the
\* response carries a non-empty errors field and never changes the return
\* value, so the driver goes on to the webhook step.
C5_PartialSuccessIsSuccess ==
    \A i \in 1..Len(trace) :
        (trace[i].step = "provision_sample_users" /\ DocumentedBulkResult(trace[i])) =>
            /\ ReturnedTrue(trace[i])
            /\ Warned(trace[i]) <=> (trace[i].net.body.errors # <<>>)
            /\ (i = Len(trace) => pc = "send_webhook_test")

AllThreeReturnedTrue ==
    \A v \in Verbs : \E i \in 1..Len(trace) : trace[i].step = v /\ ReturnedTrue(trace[i])

BothFilesWritten ==
    /\ files[MODELS_FILE] = generate_django_models
    /\ files[ADMIN_FILE] = generate_django_admin

NoFileTouched == \A n \in FileNames : files[n] = Absent

\* C6 as stated: the two files are written if and only if the three network
\* steps all returned True: no file in a run where a step fails or the key is
\* missing, both files in every run where all three succeed.
C6_FilesIffAllSucceed ==
    pc = "done" =>
        /\ ~AllThreeReturnedTrue => NoFileTouched
        /\ AllThreeReturnedTrue => BothFilesWritten

\* C6 amended: no file is created or changed unless the three network steps
\* all returned True; in a run where they did, both files are written unless
\* opening or writing one of them raises OSError, and then the run ends with
\* exit status 1, the admin file never written without the models file.
C6_FilesOnlyAfterAllSucceed ==
    /\ ~AllThreeReturnedTrue => NoFileTouched
    /\ files[ADMIN_FILE] # Absent => files[MODELS_FILE] = generate_django_models
    /\ pc = "done" /\ AllThreeReturnedTrue =>
          \/ BothFilesWritten /\ exception = "" /\ exit_status = 0
          \/ ~BothFilesWritten /\ exception = "OSError" /\ exit_status = 1

C6_Witness ==
    /\ pc = "done"
    /\ AllThreeReturnedTrue
    /\ files[MODELS_FILE] = generate_django_models
    /\ files[ADMIN_FILE] = ""
    /\ exit_status = 1

----------------------------------------------------------------------------
(* Properties of a client object used directly (SpecClient) *)

\* the credential __init__ is documented to keep
ExpectedToken ==
    IF constructed_with.api_key \notin {None, ""}
    THEN constructed_with.api_key
    ELSE env_key

ExpectedHeaders ==
    ("Authorization" :> ("Bearer " \o (IF ExpectedToken = None THEN "None"
                                       ELSE ExpectedToken)))
    @@ ("Content-Type" :> "application/json")

\* C9: every request a verb sends carries Authorization: Bearer <token> and
\* Content-Type: application/json, the token being the credential fixed at
\* construction (the api_key argument when non-empty, else the environment
\* value); no call changes the headers, the credential or the base URL.
C9_SameHeadersOnEveryRequest ==
    /\ pc = "client" =>
          /\ setup.api_key = ExpectedToken
          /\ setup.api_base_url = constructed_with.api_base_url
          /\ setup.headers = ExpectedHeaders
    /\ \A i \in 1..Len(sent) :
          /\ sent[i].headers = ExpectedHeaders
          /\ sent[i].url \in { constructed_with.api_base_url \o path :
                                 path \in {"/webhooks/status",
                                           "/provisioning/users/bulk",
                                           "/webhooks/events"} }

C9_Witness ==
    /\ Len(sent) = 2
    /\ constructed_with.api_key = "secret-from-arg"
    /\ env_key = "secret-from-env"
    /\ sent[1].headers["Authorization"] = "Bearer secret-from-arg"
    /\ sent[2].headers["Authorization"] = "Bearer secret-from-arg"
    /\ sent[1].url # sent[2].url

\* what datetime.isoformat() prints for the clock readings of the model
ExpectedIso(t) ==
    CASE t = 0       -> "2024-01-01T00:00:00"
      [] t = 1000    -> "2024-01-01T00:00:00.001000"
      [] t = 1001    -> "2024-01-01T00:00:00.001001"
      [] t = 1000000 -> "2024-01-01T00:00:01"

WebhookCalls == {i \in 1..Len(trace) : trace[i].step = "send_webhook_test"}

EventIdSent(i) == trace[i].requests[1].json.event_id

\* C10: the event_id send_webhook_test sends is "test-" followed by the ISO
\* timestamp of the clock reading taken at the call, and two calls whose
\* readings are more than one millisecond apart send different event_id values.
C10_EventId ==
    /\ \A i \in WebhookCalls :
          /\ Len(trace[i].requests) = 1
          /\ EventIdSent(i) = "test-" \o ExpectedIso(trace[i].now[1])
    /\ \A i, j \in WebhookCalls :
          (trace[i].now[1] - trace[j].now[1] > 1000) => EventIdSent(i) # EventIdSent(j)

C10_Witness ==
    /\ Len(trace) = 2
    /\ WebhookCalls = {1, 2}
    /\ trace[1].now[1] = 1001
    /\ trace[2].now[1] = 0
    /\ EventIdSent(1) = "test-2024-01-01T00:00:00.001001"
    /\ EventIdSent(2) = "test-2024-01-01T00:00:00"

====
